---- MODULE Spec2Model ----
(***************************************************************************)
(* A model of the URI parser of Real-World_Bug_Hunting/Chapter_1           *)
(* (URI_Parser.py): URIParser.parse and its stages, URIObject.to_string,   *)
(* and the helpers they call.                                              *)
(*                                                                         *)
(* A Python string is a sequence of characters; a character is a TLA+      *)
(* string: the character itself for printable ASCII ("a", ":", "/"),       *)
(* "chr(9)" for a control character, "U+00B2" for a non-ASCII code point.  *)
(* A Python index is 0-based: the character at index i of s is s[i + 1].   *)
(***************************************************************************)
EXTENDS Naturals, Sequences, FiniteSets, TLC

(***************************************************************************)
(* Characters                                                              *)
(***************************************************************************)
AsciiLower ==
    <<"a", "b", "c", "d", "e", "f", "g", "h", "i", "j", "k", "l", "m",
      "n", "o", "p", "q", "r", "s", "t", "u", "v", "w", "x", "y", "z">>

AsciiUpper ==
    <<"A", "B", "C", "D", "E", "F", "G", "H", "I", "J", "K", "L", "M",
      "N", "O", "P", "Q", "R", "S", "T", "U", "V", "W", "X", "Y", "Z">>

DecimalDigits == <<"0", "1", "2", "3", "4", "5", "6", "7", "8", "9">>

\* The printable ASCII characters, code points 32 to 126 in order (the grave
\* accent, which a string literal cannot hold, by its code).
Printable ==
    <<" ", "!", "\"", "#", "$", "%", "&", "'", "(", ")", "*", "+", ",", "-",
      ".", "/">> \o DecimalDigits \o <<":", ";", "<", "=", ">", "?", "@">>
    \o AsciiUpper \o <<"[", "\\", "]", "^", "_", "chr(96)">>
    \o AsciiLower \o <<"{", "|", "}", "~">>

Range(f) == {f[i] : i \in DOMAIN f}

UpperSet == Range(AsciiUpper)

LetterSet == Range(AsciiLower) \cup Range(AsciiUpper)

DigitSet == Range(DecimalDigits)

IndexOf(c, table) == CHOOSE i \in DOMAIN table : table[i] = c

\* The non-ASCII characters of the model: SUPERSCRIPT TWO (a digit for
\* str.isdigit, not for int), the replacement character (what decoding an
\* invalid UTF-8 byte yields), and two non-ASCII spaces.
NonAsciiChars == {"U+00B2", "U+FFFD", "U+0085", "U+00A0"}

\* What str.strip() removes.
Whitespace ==
    {" ", "chr(9)", "chr(10)", "chr(11)", "chr(12)", "chr(13)", "chr(28)",
     "chr(29)", "chr(30)", "chr(31)", "U+0085", "U+00A0"}

\* chr(n) for a byte decoded as UTF-8 with errors='replace' on its own.
Chr(n) ==
    IF n \in 32..126 THEN Printable[n - 31]
    ELSE IF n < 128 THEN "chr(" \o ToString(n) \o ")"
    ELSE "U+FFFD"

LowerChar(c) ==
    IF c \in UpperSet THEN AsciiLower[IndexOf(c, AsciiUpper)] ELSE c

Lower(s) == [i \in 1..Len(s) |-> LowerChar(s[i])]

(***************************************************************************)
(* Python string operations                                                *)
(***************************************************************************)
\* s[i:] and s[i:j] with 0-based indexes.
From(s, i) == SubSeq(s, i + 1, Len(s))

Slice(s, i, j) == SubSeq(s, i + 1, j)

Contains(s, c) == \E i \in 1..Len(s) : s[i] = c

\* s.index(c), 0-based, for a string that contains c.
Index(s, c) == (CHOOSE i \in 1..Len(s) : s[i] = c /\ \A j \in 1..(i - 1) : s[j] # c) - 1

\* s.rindex(c), 0-based, for a string that contains c.
RIndex(s, c) == (CHOOSE i \in 1..Len(s) : s[i] = c /\ \A j \in (i + 1)..Len(s) : s[j] # c) - 1

StartsWith(s, c) == Len(s) > 0 /\ s[1] = c

\* s.strip(chars): the longest slice that neither starts nor ends in chars.
StripChars(s, chars) ==
    LET keep == {i \in 1..Len(s) : s[i] \notin chars}
    IN  IF keep = {} THEN <<>>
        ELSE SubSeq(s, CHOOSE i \in keep : \A j \in keep : i <= j,
                       CHOOSE i \in keep : \A j \in keep : i >= j)

Strip(s) == StripChars(s, Whitespace)

RECURSIVE SplitOn(_, _)
\* s.split(c): the list of the pieces of s between the occurrences of c.
SplitOn(s, c) ==
    IF Contains(s, c)
    THEN <<Slice(s, 0, Index(s, c))>> \o SplitOn(From(s, Index(s, c) + 1), c)
    ELSE <<s>>

RECURSIVE JoinWith(_, _)
\* c.join(parts)
JoinWith(parts, c) ==
    IF parts = <<>> THEN <<>>
    ELSE IF Len(parts) = 1 THEN parts[1]
    ELSE parts[1] \o <<c>> \o JoinWith(Tail(parts), c)

(***************************************************************************)
(* The scheme names the code spells out                                    *)
(***************************************************************************)
http == <<"h", "t", "t", "p">>

https == <<"h", "t", "t", "p", "s">>

ftp == <<"f", "t", "p">>

file == <<"f", "i", "l", "e">>

ws == <<"w", "s">>

wss == <<"w", "s", "s">>

urn == <<"u", "r", "n">>

mailto == <<"m", "a", "i", "l", "t", "o">>

tel == <<"t", "e", "l">>

news == <<"n", "e", "w", "s">>

(***************************************************************************)
(* Utility and helper methods (URI_Parser.py lines 11 to 61)               *)
(***************************************************************************)
HexDigits == DecimalDigits \o <<"a", "b", "c", "d", "e", "f">>

HexSet == Range(HexDigits)

IsHex(c) == LowerChar(c) \in HexSet

HexVal(c) == IndexOf(LowerChar(c), HexDigits) - 1

RECURSIVE percent_decode(_)
\* urllib.parse.unquote: every '%' followed by two hex digits becomes the
\* character of that byte, any other '%' stays. unquote never raises on a
\* str, so the except branch is dead. A byte of 128 or more is decoded on
\* its own (to U+FFFD): the model's inputs hold no hex digit c to f, so no
\* multi-byte UTF-8 sequence can be written.
percent_decode(s) ==
    IF s = <<>> THEN <<>>
    ELSE IF s[1] = "%" /\ Len(s) >= 3 /\ IsHex(s[2]) /\ IsHex(s[3])
    THEN <<Chr(16 * HexVal(s[2]) + HexVal(s[3]))>> \o percent_decode(From(s, 3))
    ELSE <<s[1]>> \o percent_decode(Tail(s))

\* A variant that takes only lower-case letters for ASCII letters.
is_ascii_alpha_lowercase_only(ch) == ch \in Range(AsciiLower)

is_ascii_alpha(ch) == ch \in LetterSet

contains_non_ascii(s) == \E i \in 1..Len(s) : s[i] \in NonAsciiChars

\* The defaults table; None is modelled as no port at all (the empty set).
default_port(scheme) ==
    IF scheme = http THEN {80}
    ELSE IF scheme = https THEN {443}
    ELSE IF scheme = ftp THEN {21}
    ELSE IF scheme = ws THEN {80}
    ELSE IF scheme = wss THEN {443}
    ELSE {}

\* s.split(delim, 1), padded to a pair.
split_once(s, delim) ==
    IF Contains(s, delim)
    THEN <<Slice(s, 0, Index(s, delim)), From(s, Index(s, delim) + 1)>>
    ELSE <<s, <<>>>>

\* A variant that splits at the first delimiter, as split_once does.
split_last_at_first(s, delim) ==
    IF Contains(s, delim)
    THEN <<Slice(s, 0, Index(s, delim)), From(s, Index(s, delim) + 1)>>
    ELSE <<s, <<>>>>

\* s.rsplit(delim, 1), padded to a pair.
split_last(s, delim) ==
    IF Contains(s, delim)
    THEN <<Slice(s, 0, RIndex(s, delim)), From(s, RIndex(s, delim) + 1)>>
    ELSE <<s, <<>>>>

\* str.isdigit(): non-empty, every character a digit; SUPERSCRIPT TWO is one.
is_digit_string(s) ==
    /\ s # <<>>
    /\ \A i \in 1..Len(s) : s[i] \in DigitSet \cup {"U+00B2"}

parse_ipv6(buffer) ==
    IF StartsWith(buffer, "[") /\ Contains(buffer, "]")
    THEN LET host == Slice(buffer, 1, Index(buffer, "]"))
             remainder == From(buffer, Index(buffer, "]") + 1)
         IN  <<host, IF StartsWith(remainder, ":") THEN From(remainder, 1) ELSE <<>>>>
    ELSE <<buffer, <<>>>>

(***************************************************************************)
(* A call that may raise returns a record: err is the exception's message  *)
(* ("" when it returned), val the value returned.                          *)
(***************************************************************************)
Returned(v) == [err |-> "", val |-> v]

Raised(msg) == [err |-> msg, val |-> <<>>]

(***************************************************************************)
(* URIUtilities (lines 68 to 104)                                          *)
(***************************************************************************)
\* idna.encode(host).decode('ascii') for a host that holds a non-ASCII
\* character. Every non-ASCII character of the model is DISALLOWED by
\* IDNA 2008 (RFC 5892), so the library raises an IDNAError.
idna_encode(host) == Raised("idna.IDNAError")

normalize_host(host) ==
    LET h == Lower(StripChars(Strip(host), {"."}))
    IN  IF contains_non_ascii(h) THEN idna_encode(h) ELSE Returned(h)

RECURSIVE int(_)
\* int(port) for a string of the digits 0 to 9.
int(s) ==
    IF s = <<>> THEN 0
    ELSE 10 * int(SubSeq(s, 1, Len(s) - 1)) + (IndexOf(s[Len(s)], DecimalDigits) - 1)

RECURSIVE str(_)
\* str(n) for a natural number.
str(n) ==
    IF n < 10 THEN <<DecimalDigits[n + 1]>>
    ELSE str(n \div 10) \o <<DecimalDigits[(n % 10) + 1]>>

\* A variant that compares the port's text with the default and keeps the
\* text as written: no int(), so leading zeros survive.
normalize_port_textual(port, scheme) ==
    IF port = <<>> \/ ~is_digit_string(port) THEN Returned(<<>>)
    ELSE IF port \in {str(d) : d \in default_port(scheme)} THEN Returned(<<>>)
    ELSE Returned(port)

\* int() raises ValueError on SUPERSCRIPT TWO, which str.isdigit() accepts.
normalize_port(port, scheme) ==
    IF port = <<>> \/ ~is_digit_string(port) THEN Returned(<<>>)
    ELSE IF Contains(port, "U+00B2")
    THEN Raised("invalid literal for int() with base 10")
    ELSE IF int(port) \in default_port(scheme) THEN Returned(<<>>)
    ELSE Returned(str(int(port)))

RECURSIVE RetainSegments_keeps_excess(_, _)
\* A variant that keeps a ".." that finds nothing to pop.
RetainSegments_keeps_excess(parts, segments) ==
    IF parts = <<>> THEN segments
    ELSE LET seg == Head(parts)
         IN  IF seg = <<>> \/ seg = <<".">>
             THEN RetainSegments_keeps_excess(Tail(parts), segments)
             ELSE IF seg = <<".", ".">> /\ segments # <<>>
             THEN RetainSegments_keeps_excess(Tail(parts),
                      SubSeq(segments, 1, Len(segments) - 1))
             ELSE RetainSegments_keeps_excess(Tail(parts), Append(segments, seg))

RECURSIVE RetainSegments(_, _)
\* The loop of normalize_path over path.split('/').
RetainSegments(parts, segments) ==
    IF parts = <<>> THEN segments
    ELSE LET seg == Head(parts)
         IN  IF seg = <<>> \/ seg = <<".">> THEN RetainSegments(Tail(parts), segments)
             ELSE IF seg = <<".", ".">> /\ segments # <<>>
             THEN RetainSegments(Tail(parts), SubSeq(segments, 1, Len(segments) - 1))
             ELSE IF seg # <<".", ".">>
             THEN RetainSegments(Tail(parts), Append(segments, seg))
             ELSE RetainSegments(Tail(parts), segments)

normalize_path(path, scheme) ==
    LET p == IF scheme \in {http, https, ftp, file, ws, wss} /\ ~StartsWith(path, "/")
             THEN <<"/">> \o path
             ELSE path
    IN  <<"/">> \o JoinWith(RetainSegments(SplitOn(p, "/"), <<>>), "/")

normalize(builder) ==
    [builder EXCEPT !.scheme = Lower(@),
                    !.host = IF @ # <<>> THEN Lower(@) ELSE @]

(***************************************************************************)
(* URIObject and URIBuilder (lines 111 to 181)                             *)
(***************************************************************************)
\* A variant that writes the userinfo whenever either half is non-empty.
to_string_userinfo_if_any(uri) ==
    IF uri.opaque # <<>> THEN uri.scheme \o <<":">> \o uri.opaque
    ELSE uri.scheme \o <<":", "/", "/">>
         \o (IF uri.username # <<>> \/ uri.password # <<>>
             THEN uri.username
                  \o (IF uri.password # <<>> THEN <<":">> \o uri.password ELSE <<>>)
                  \o <<"@">>
             ELSE <<>>)
         \o uri.host
         \o (IF uri.port # <<>> THEN <<":">> \o uri.port ELSE <<>>)
         \o (IF uri.path # <<>> THEN uri.path ELSE <<"/">>)
         \o (IF uri.query # <<>> THEN <<"?">> \o uri.query ELSE <<>>)
         \o (IF uri.fragment # <<>> THEN <<"#">> \o uri.fragment ELSE <<>>)

to_string(uri) ==
    IF uri.opaque # <<>> THEN uri.scheme \o <<":">> \o uri.opaque
    ELSE uri.scheme \o <<":", "/", "/">>
         \o (IF uri.username # <<>>
             THEN uri.username
                  \o (IF uri.password # <<>> THEN <<":">> \o uri.password ELSE <<>>)
                  \o <<"@">>
             ELSE <<>>)
         \o uri.host
         \o (IF uri.port # <<>> THEN <<":">> \o uri.port ELSE <<>>)
         \o (IF uri.path # <<>> THEN uri.path ELSE <<"/">>)
         \o (IF uri.query # <<>> THEN <<"?">> \o uri.query ELSE <<>>)
         \o (IF uri.fragment # <<>> THEN <<"#">> \o uri.fragment ELSE <<>>)

\* URIBuilder.__init__
URIBuilder ==
    [scheme |-> <<>>, username |-> <<>>, password |-> <<>>, host |-> <<>>,
     port |-> <<>>, path |-> <<>>, query |-> <<>>, fragment |-> <<>>,
     opaque |-> <<>>]

\* URIBuilder.build: a URIObject with the builder's nine fields.
build(builder) == builder

(***************************************************************************)
(* URIHandlerFactory (lines 296 to 310)                                    *)
(***************************************************************************)
\* A variant whose default is the other strategy.
get_handler_unmapped_opaque(scheme) ==
    IF Lower(scheme) \in {http, https, ftp, file} THEN "Hierarchical" ELSE "Opaque"

get_handler(scheme) ==
    IF Lower(scheme) \in {urn, mailto, tel, news} THEN "Opaque" ELSE "Hierarchical"

(***************************************************************************)
(* URIParser._parse_scheme (lines 344 to 354)                              *)
(***************************************************************************)
RECURSIVE SchemeEnd(_, _)
\* The loop of lines 346 to 347: the index it stops at.
SchemeEnd(input, index) ==
    IF index < Len(input) /\ is_ascii_alpha(input[index + 1])
    THEN SchemeEnd(input, index + 1)
    ELSE index

\* err: the message of the ValueError raised ("" when none); index: what
\* self.index is left at; val: the scheme returned.
_parse_scheme(input, index) ==
    LET end == SchemeEnd(input, index)
    IN  IF end = index \/ end >= Len(input) \/ input[end + 1] # ":"
        THEN [err |-> "Missing or invalid scheme", index |-> end, val |-> <<>>]
        ELSE [err |-> "", index |-> end + 1, val |-> Lower(Slice(input, index, end))]

(***************************************************************************)
(* HierarchicalHandler (lines 197 to 279). Each stage is given input_str,  *)
(* index and the builder's fields, and yields the index it returns and the *)
(* builder's fields as it leaves them.                                     *)
(***************************************************************************)
RECURSIVE SeparatorEnd(_, _)
\* The loop of lines 203 to 207: the index after the run of '/' and '\'.
SeparatorEnd(input_str, index) ==
    IF index < Len(input_str) /\ input_str[index + 1] \in {"/", "\\"}
    THEN SeparatorEnd(input_str, index + 1)
    ELSE index

\* A variant of the check that knows no lenient mode.
SeparatorsRejected_strict(slash_count, RFC3986_MODE) == slash_count < 2

\* The check of line 210.
SeparatorsRejected(slash_count, RFC3986_MODE) == slash_count < 2 /\ RFC3986_MODE

\* Lines 199 to 211.
consume_separators(input_str, index) ==
    LET end == SeparatorEnd(input_str, index)
        slash_count == end - index
        RFC3986_MODE == ~Contains(Slice(input_str, index, end), "\\")
    IN  [err |-> IF SeparatorsRejected(slash_count, RFC3986_MODE)
                 THEN "Expected '//' after scheme"
                 ELSE "",
         index |-> end, slash_count |-> slash_count, RFC3986_MODE |-> RFC3986_MODE]

\* What the '@' branch (lines 233 to 236) leaves in username and password.
FlushUserinfo(buffer, username, password) ==
    IF Contains(buffer, ":") THEN split_once(buffer, ":") ELSE <<buffer, password>>

RECURSIVE AuthorityLoop(_, _, _)
\* The loop of _parse_authority (lines 230 to 242). st holds its locals:
\* buffer, username, password, and flushed: whether set_userinfo was called
\* (its last arguments are then the decoded username and password).
AuthorityLoop(input_str, index, st) ==
    IF index < Len(input_str) /\ input_str[index + 1] \notin {"/", "?", "#"}
    THEN LET c == input_str[index + 1]
         IN  IF c = "@"
             THEN LET up == FlushUserinfo(st.buffer, st.username, st.password)
                  IN  AuthorityLoop(input_str, index + 1,
                          [buffer |-> <<>>, username |-> up[1],
                           password |-> up[2], flushed |-> TRUE])
             ELSE AuthorityLoop(input_str, index + 1,
                      [st EXCEPT !.buffer = Append(@, c)])
    ELSE [index |-> index] @@ st

\* Lines 244 to 249: the residual buffer as host and port.
SplitHostPort(buffer) ==
    IF Contains(buffer, "[") /\ Contains(buffer, "]") THEN parse_ipv6(buffer)
    ELSE IF Contains(buffer, ":") THEN split_last(buffer, ":")
    ELSE <<buffer, <<>>>>

\* _parse_authority (lines 225 to 254). normalize_host is called before
\* normalize_port, so its exception is the one raised when both would raise;
\* a raise leaves the userinfo already stored in the builder.
_parse_authority(input_str, index, builder) ==
    LET st == AuthorityLoop(input_str, index,
                  [buffer |-> <<>>, username |-> <<>>, password |-> <<>>,
                   flushed |-> FALSE])
        hp == SplitHostPort(st.buffer)
        host == normalize_host(hp[1])
        port == normalize_port(hp[2], builder.scheme)
        flushed == IF st.flushed
                   THEN [builder EXCEPT !.username = percent_decode(st.username),
                                        !.password = percent_decode(st.password)]
                   ELSE builder
    IN  IF host.err # "" \/ port.err # ""
        THEN [err |-> IF host.err # "" THEN host.err ELSE port.err,
              index |-> st.index, buffer |-> st.buffer, builder |-> flushed]
        ELSE [err |-> "", index |-> st.index, buffer |-> st.buffer,
              builder |-> [flushed EXCEPT !.host = host.val, !.port = port.val]]

RECURSIVE ScanUntil_leaves_last(_, _, _)
\* A variant whose loop stops one character before the end of the input.
ScanUntil_leaves_last(input_str, index, stops) ==
    IF index < Len(input_str) - 1 /\ input_str[index + 1] \notin stops
    THEN ScanUntil_leaves_last(input_str, index + 1, stops)
    ELSE index

RECURSIVE ScanUntil(_, _, _)
\* A loop that advances index to the first character in stops, or the end
\* (lines 258 to 260 and 269 to 271).
ScanUntil(input_str, index, stops) ==
    IF index < Len(input_str) /\ input_str[index + 1] \notin stops
    THEN ScanUntil(input_str, index + 1, stops)
    ELSE index

\* _parse_path (lines 256 to 263).
_parse_path(input_str, index, builder) ==
    LET end == ScanUntil(input_str, index, {"?", "#"})
    IN  [index |-> end,
         builder |-> [builder EXCEPT
             !.path = normalize_path(Slice(input_str, index, end), builder.scheme)]]

\* A variant that returns the index it was given.
_parse_query_returns_start(input_str, index, builder) ==
    IF index < Len(input_str) /\ input_str[index + 1] = "?"
    THEN [index |-> index,
          builder |-> [builder EXCEPT !.query =
              Slice(input_str, index + 1, ScanUntil(input_str, index + 1, {"#"}))]]
    ELSE [index |-> index, builder |-> builder]

\* _parse_query (lines 265 to 273).
_parse_query(input_str, index, builder) ==
    IF index < Len(input_str) /\ input_str[index + 1] = "?"
    THEN LET end == ScanUntil(input_str, index + 1, {"#"})
         IN  [index |-> end,
              builder |-> [builder EXCEPT !.query = Slice(input_str, index + 1, end)]]
    ELSE [index |-> index, builder |-> builder]

\* A variant that percent-decodes the fragment it stores.
_parse_fragment_decoded(input_str, index, builder) ==
    IF index < Len(input_str) /\ input_str[index + 1] = "#"
    THEN [index |-> index + 1,
          builder |-> [builder EXCEPT
              !.fragment = percent_decode(From(input_str, index + 1))]]
    ELSE [index |-> index, builder |-> builder]

\* _parse_fragment (lines 275 to 279); index is its local, which it leaves
\* after the '#'.
_parse_fragment(input_str, index, builder) ==
    IF index < Len(input_str) /\ input_str[index + 1] = "#"
    THEN [index |-> index + 1,
          builder |-> [builder EXCEPT !.fragment = From(input_str, index + 1)]]
    ELSE [index |-> index, builder |-> builder]

(***************************************************************************)
(* OpaqueHandler (lines 286 to 289)                                        *)
(***************************************************************************)
\* A variant that starts one character late.
opaque_part_late(input_str, index) == From(input_str, index + 1)

opaque_part(input_str, index) == From(input_str, index)

OpaqueHandler_parse(input_str, index, builder) ==
    [builder EXCEPT !.opaque = opaque_part(input_str, index)]

(***************************************************************************)
(* State                                                                   *)
(***************************************************************************)
VARIABLES
    parser,     \* the URIParser objects: their fields input, index, builder
    heap,       \* the URIBuilder objects constructed so far; a builder
                \* reference is an index into heap
    frame,      \* per thread: the stage its parse call is at and the locals
    todo,       \* per thread: the strings it has still to parse
    returned,   \* per thread: what its parse calls returned or raised
    uses,       \* per thread: the URIParser object it calls parse on
    _data,      \* Store._data: the stored items by key
    _next_id,   \* Store._next_id
    replies,    \* what the calls made on the Store returned, in order
    object,     \* a URIObject a caller holds
    serialized  \* what to_string returned for it: <<>> before the call,
                \* <<string>> after

vars == <<parser, heap, frame, todo, returned, uses, _data, _next_id, replies,
          object, serialized>>

\* The fields of the Store and of the caller's URIObject, which no step of
\* parse reads or writes.
beside_parse == <<_data, _next_id, replies, object, serialized>>

Threads == {1, 2}

Parsers == {1, 2}

\* The locals of a parse call before it runs.
NoLocals ==
    [input_string |-> <<>>, scheme |-> <<>>, handler |-> "", input_str |-> <<>>,
     index |-> 0, builder |-> 0, slash_count |-> 0, RFC3986_MODE |-> TRUE,
     buffer |-> <<>>]

Locals(pc, locals) == [pc |-> pc] @@ locals

\* What the caller of parse gets: the URIObject returned (err is ""), or the
\* message of the exception raised and no URIObject.
Outcome(input_string, err, uri) == [input |-> input_string, err |-> err, uri |-> uri]

\* The call of thread t raises.
Raise(t, msg) ==
    /\ returned' = [returned EXCEPT ![t] =
            Append(@, Outcome(frame[t].input_string, msg, <<>>))]
    /\ frame' = [frame EXCEPT ![t].pc = "Failed"]

(***************************************************************************)
(* URIParser.parse (lines 323 to 342), a stage at a time                   *)
(***************************************************************************)
\* A variant that keeps the parser object's builder from call to call.
Begin_keeps_builder(t) ==
    /\ frame[t].pc \in {"Idle", "Done", "Failed"}
    /\ todo[t] # <<>>
    /\ parser' = [parser EXCEPT ![uses[t]] =
            [@ EXCEPT !.input = Strip(Head(todo[t])), !.index = 0]]
    /\ frame' = [frame EXCEPT ![t] =
            Locals("ScanningScheme", [NoLocals EXCEPT !.input_string = Head(todo[t])])]
    /\ todo' = [todo EXCEPT ![t] = Tail(@)]
    /\ UNCHANGED <<heap, returned, uses>>
    /\ UNCHANGED beside_parse

\* Lines 324 to 326: the call stores the trimmed input, a zero index and a
\* new URIBuilder in the parser object.
Begin(t) ==
    /\ frame[t].pc \in {"Idle", "Done", "Failed"}
    /\ todo[t] # <<>>
    /\ parser' = [parser EXCEPT ![uses[t]] =
            [input |-> Strip(Head(todo[t])), index |-> 0, builder |-> Len(heap) + 1]]
    /\ heap' = Append(heap, URIBuilder)
    /\ frame' = [frame EXCEPT ![t] =
            Locals("ScanningScheme", [NoLocals EXCEPT !.input_string = Head(todo[t])])]
    /\ todo' = [todo EXCEPT ![t] = Tail(@)]
    /\ UNCHANGED <<returned, uses>>
    /\ UNCHANGED beside_parse

\* Lines 329 to 336: scan the scheme on self.input and self.index, store it
\* in self.builder, select the handler and call it with self.input,
\* self.index and self.builder.
ParseScheme(t) ==
    LET self == parser[uses[t]]
        r == _parse_scheme(self.input, self.index)
    IN  /\ frame[t].pc = "ScanningScheme"
        /\ parser' = [parser EXCEPT ![uses[t]].index = r.index]
        /\ IF r.err # ""
           THEN /\ Raise(t, r.err)
                /\ UNCHANGED heap
           ELSE /\ heap' = [heap EXCEPT ![self.builder].scheme = r.val]
                /\ frame' = [frame EXCEPT ![t] =
                        [@ EXCEPT !.pc = IF get_handler(r.val) = "Opaque"
                                         THEN "CapturingOpaque"
                                         ELSE "ConsumingSeparators",
                                  !.scheme = r.val,
                                  !.handler = get_handler(r.val),
                                  !.input_str = self.input,
                                  !.index = r.index,
                                  !.builder = self.builder]]
                /\ UNCHANGED returned
        /\ UNCHANGED <<todo, uses>>
        /\ UNCHANGED beside_parse

\* HierarchicalHandler.parse, lines 199 to 211.
ConsumeSeparators(t) ==
    LET f == frame[t]
        r == consume_separators(f.input_str, f.index)
    IN  /\ f.pc = "ConsumingSeparators"
        /\ IF r.err # ""
           THEN Raise(t, r.err)
           ELSE /\ frame' = [frame EXCEPT ![t] =
                        [@ EXCEPT !.pc = "ParsingAuthority",
                                  !.index = r.index,
                                  !.slash_count = r.slash_count,
                                  !.RFC3986_MODE = r.RFC3986_MODE]]
                /\ UNCHANGED returned
        /\ UNCHANGED <<parser, heap, todo, uses>>
        /\ UNCHANGED beside_parse

\* Line 214.
ParseAuthority(t) ==
    LET f == frame[t]
        r == _parse_authority(f.input_str, f.index, heap[f.builder])
    IN  /\ f.pc = "ParsingAuthority"
        /\ heap' = [heap EXCEPT ![f.builder] = r.builder]
        /\ IF r.err # ""
           THEN Raise(t, r.err)
           ELSE /\ frame' = [frame EXCEPT ![t] =
                        [@ EXCEPT !.pc = "ParsingPath",
                                  !.index = r.index,
                                  !.buffer = r.buffer]]
                /\ UNCHANGED returned
        /\ UNCHANGED <<parser, todo, uses>>
        /\ UNCHANGED beside_parse

\* Line 217.
ParsePath(t) ==
    LET f == frame[t]
        r == _parse_path(f.input_str, f.index, heap[f.builder])
    IN  /\ f.pc = "ParsingPath"
        /\ heap' = [heap EXCEPT ![f.builder] = r.builder]
        /\ frame' = [frame EXCEPT ![t] =
                [@ EXCEPT !.pc = "ParsingQuery", !.index = r.index]]
        /\ UNCHANGED <<parser, todo, returned, uses>>
        /\ UNCHANGED beside_parse

\* Line 220.
ParseQuery(t) ==
    LET f == frame[t]
        r == _parse_query(f.input_str, f.index, heap[f.builder])
    IN  /\ f.pc = "ParsingQuery"
        /\ heap' = [heap EXCEPT ![f.builder] = r.builder]
        /\ frame' = [frame EXCEPT ![t] =
                [@ EXCEPT !.pc = "ParsingFragment", !.index = r.index]]
        /\ UNCHANGED <<parser, todo, returned, uses>>
        /\ UNCHANGED beside_parse

\* Line 223, which does not assign to index: _parse_fragment returns
\* nothing, and the index of HierarchicalHandler.parse stays where the query
\* stage left it. handler.parse then returns to parse.
ParseFragment(t) ==
    LET f == frame[t]
        r == _parse_fragment(f.input_str, f.index, heap[f.builder])
    IN  /\ f.pc = "ParsingFragment"
        /\ heap' = [heap EXCEPT ![f.builder] = r.builder]
        /\ frame' = [frame EXCEPT ![t].pc = "Normalizing"]
        /\ UNCHANGED <<parser, todo, returned, uses>>
        /\ UNCHANGED beside_parse

\* OpaqueHandler.parse (lines 287 to 289), then back in parse.
CaptureOpaque(t) ==
    LET f == frame[t]
    IN  /\ f.pc = "CapturingOpaque"
        /\ heap' = [heap EXCEPT ![f.builder] =
                OpaqueHandler_parse(f.input_str, f.index, @)]
        /\ frame' = [frame EXCEPT ![t].pc = "Normalizing"]
        /\ UNCHANGED <<parser, todo, returned, uses>>
        /\ UNCHANGED beside_parse

\* Line 339: URIUtilities.normalize(self.builder, handler).
Normalize(t) ==
    /\ frame[t].pc = "Normalizing"
    /\ heap' = [heap EXCEPT ![parser[uses[t]].builder] = normalize(@)]
    /\ frame' = [frame EXCEPT ![t].pc = "Building"]
    /\ UNCHANGED <<parser, todo, returned, uses>>
    /\ UNCHANGED beside_parse

\* Line 342: return self.builder.build().
Build(t) ==
    /\ frame[t].pc = "Building"
    /\ returned' = [returned EXCEPT ![t] =
            Append(@, Outcome(frame[t].input_string, "",
                              <<build(heap[parser[uses[t]].builder])>>))]
    /\ frame' = [frame EXCEPT ![t].pc = "Done"]
    /\ UNCHANGED <<parser, heap, todo, uses>>
    /\ UNCHANGED beside_parse

\* One step of one parse call.
Step(t) ==
    \/ Begin(t)
    \/ ParseScheme(t)
    \/ ConsumeSeparators(t)
    \/ ParseAuthority(t)
    \/ ParsePath(t)
    \/ ParseQuery(t)
    \/ ParseFragment(t)
    \/ CaptureOpaque(t)
    \/ Normalize(t)
    \/ Build(t)

Next == \E t \in Threads : Step(t)

(***************************************************************************)
(* URIParser.parse run from its first line to its last with no other call  *)
(* in between, on a parser object of its own: the stages above composed.   *)
(***************************************************************************)
HierarchicalHandler_parse(input_str, index, builder) ==
    LET sep == consume_separators(input_str, index)
        auth == _parse_authority(input_str, sep.index, builder)
        path == _parse_path(input_str, auth.index, auth.builder)
        query == _parse_query(input_str, path.index, path.builder)
        fragment == _parse_fragment(input_str, query.index, query.builder)
    IN  IF sep.err # "" THEN [err |-> sep.err, builder |-> builder]
        ELSE IF auth.err # "" THEN [err |-> auth.err, builder |-> auth.builder]
        ELSE [err |-> "", builder |-> fragment.builder]

parse(input_string) ==
    LET input == Strip(input_string)
        sch == _parse_scheme(input, 0)
        builder == [URIBuilder EXCEPT !.scheme = sch.val]
        handled == IF get_handler(sch.val) = "Opaque"
                   THEN [err |-> "", builder |-> OpaqueHandler_parse(input, sch.index, builder)]
                   ELSE HierarchicalHandler_parse(input, sch.index, builder)
    IN  IF sch.err # "" THEN Outcome(input_string, sch.err, <<>>)
        ELSE IF handled.err # "" THEN Outcome(input_string, handled.err, <<>>)
        ELSE Outcome(input_string, "", <<build(normalize(handled.builder))>>)

(***************************************************************************)
(* The inputs parse is called on                                           *)
(***************************************************************************)
MaxTail == 4

MaxUserinfo == 6

MaxHostPort == 4

MaxPort == 2

MaxPath == 6

MaxCalls == 3

MaxHost == 4

MaxQuery == 4
\* how many calls are made on the Store
MaxRequests == 4
\* the largest key a request names (the route takes any non-negative int)
MaxKey == 3

RECURSIVE Words(_, _)
\* The concatenations of at most n of the tokens.
Words(tokens, n) ==
    IF n = 0 THEN {<<>>}
    ELSE LET shorter == Words(tokens, n - 1)
         IN  shorter \cup {w \o tk : w \in shorter, tk \in tokens}

Concat(heads, tails) == {h \o tl : h \in heads, tl \in tails}

\* Inputs that between them take every path through parse: a hierarchical
\* URI with every component, an opaque one, and one failure of each kind.
Core ==
    { http \o <<":", "/", "/", "u", ":", "p", "@", "H", ":", "8", "/", "p", "?", "q", "#", "f">>,
      urn \o <<":", "a">>,
      http \o <<":", "/", "h">>,
      <<"h">>,
      http \o <<":", "/", "/", "h", ":", "U+00B2">> }

\* Scheme and separators: an optional leading space, a word, then any text
\* of colons, slashes, backslashes, letters and spaces.
SchemeInputs ==
    Concat({<<>>, <<" ">>},
        Concat({<<>>, http, <<"H", "t", "T", "p">>, ws, <<"x">>, urn, <<"U", "r", "n">>,
                mailto, tel, news},
            Words({<<":">>, <<"/">>, <<"\\">>, <<"h">>, <<" ">>}, MaxTail)))

\* Userinfo: an authority of letters, colons, '@' and a percent escape.
UserinfoInputs ==
    Concat({http \o <<":", "/", "/">>},
        Words({<<"u">>, <<":">>, <<"@">>, <<"%", "2", "3">>}, MaxUserinfo))

\* Host and port: an authority of letters, dots, colons, brackets and
\* digits, and every built-in scheme with the ports around its default.
HostPortInputs ==
    Concat({http \o <<":", "/", "/">>},
        Words({<<"h">>, <<".">>, <<":">>, <<"[">>, <<"]">>, <<"0">>, <<"8", "0">>,
               <<"U+00B2">>}, MaxHostPort))
    \cup
    Concat({http, https, ftp, ws, wss, file, <<"x">>},
        Concat({<<":", "/", "/", "h", ":">>},
            Words({<<"0">>, <<"8", "0">>, <<"4", "4", "3">>, <<"2", "1">>}, MaxPort)))

\* Paths: slashes, dots and letters after a host; a scheme whose paths
\* normalize_path prefixes and one it does not, the latter before a query.
PathInputs ==
    LET texts == Words({<<"/">>, <<".">>, <<"p">>, <<"/", ".", ".">>}, MaxPath)
    IN  Concat({http \o <<":", "/", "/", "h">>}, texts)
        \cup Concat({<<"x", ":", "/", "/", "h">>}, Concat(texts, {<<"?", "q">>}))

\* Round trips: syntactically valid absolute URIs (RFC 3986), every
\* combination of a userinfo, a host, a port and a path, and opaque URIs.
RoundTripInputs ==
    Concat({http \o <<":", "/", "/">>},
        Concat({<<>>, <<"u", "@">>, <<"u", ":", "p", "@">>, <<":", "p", "@">>},
            Concat({<<"h">>, <<"H", ".">>, <<"[", ":", ":", "1", "]">>},
                Concat({<<>>, <<":">>, <<":", "8">>, <<":", "8", "0">>},
                       {<<>>, <<"/">>, <<"/", "p", "/", ".", ".", "/", "q">>,
                        <<"/", "p", "?", "q", "#", "f">>}))))
    \cup
    Concat({urn, mailto}, {<<":", "a">>, <<":", "a", ":", "b">>, <<":", "u", "@", "h">>})

\* What two concurrent calls are given.
ConcurrentInputs ==
    { http \o <<":", "/", "/", "u", "@", "h", "/", "p">>,
      ftp \o <<":", "/", "/", "g", "?", "q">>,
      urn \o <<":", "a">>,
      <<"h">> }

\* Hosts: letters of both cases, dots, spaces and a hyphen, at the end of
\* the input and before a path.
HostInputs ==
    Concat({http \o <<":", "/", "/">>},
        Concat(Words({<<"h">>, <<"H">>, <<".">>, <<" ">>, <<"-">>}, MaxHost),
               {<<>>, <<"/">>}))

\* Query and fragment: question marks, number signs, letters, slashes and
\* a percent escape after a host, after a path, and after an authority
\* with userinfo and a port behind backslashes.
QueryInputs ==
    Concat({http \o <<":", "/", "/", "h">>,
            http \o <<":", "/", "/", "h", "/", "p">>,
            ftp \o <<":", "\\", "u", "@", "h", ":", "8">>},
        Words({<<"?">>, <<"#">>, <<"q">>, <<"/">>, <<"%", "4", "1">>}, MaxQuery))

\* Handler selection: every scheme of the mapping, two unmapped schemes the
\* default-port table knows, two it does not, and upper-case spellings,
\* each before an authority, an opaque part and nothing.
HandlerInputs ==
    Concat({http, https, ftp, file, urn, mailto, tel, news, ws, wss,
            <<"x">>, <<"g", "i", "t">>, <<"U", "R", "N">>, <<"W", "s">>},
           {<<":">>, <<":", "a">>, <<":", "/", "/", "h">>})

\* What one parser object is given call after call: URIs with and without
\* userinfo, port, query and fragment, an opaque one, and a failure of
\* each kind.
SequentialInputs ==
    Core \cup { http \o <<":", "/", "/", "g">>,
                ftp \o <<":", "/", "/", "v", "@", "g", "/", "r">> }

RECURSIVE Calls(_, _)
\* The sequences of at most n of the inputs.
Calls(inputs, n) ==
    IF n = 0 THEN {<<>>}
    ELSE LET fewer == Calls(inputs, n - 1)
         IN  fewer \cup {Append(w, s) : w \in fewer, s \in inputs}

\* The Store after Store() has constructed the one instance (lines 20 to
\* 25 of HTTP_and_the_GET_Method_Task.py), and no call made on it yet.
NoStore ==
    /\ _data = <<>>
    /\ _next_id = 1
    /\ replies = <<>>

\* The state after URIParser() has constructed each parser object (lines
\* 318 to 321), with the work of each thread chosen from work and the
\* parser object each thread uses chosen from sharing.
StartParsers(work, sharing) ==
    /\ parser = [p \in Parsers |-> [input |-> <<>>, index |-> 0, builder |-> p]]
    /\ heap = [p \in Parsers |-> URIBuilder]
    /\ frame = [t \in Threads |-> Locals("Idle", NoLocals)]
    /\ todo \in work
    /\ returned = [t \in Threads |-> <<>>]
    /\ uses \in sharing

\* A caller that holds no URIObject of its own making.
NoObject ==
    /\ object = URIBuilder
    /\ serialized = <<>>

Start(work, sharing) == StartParsers(work, sharing) /\ NoStore /\ NoObject

\* No thread has anything to parse.
Nothing == {[t \in Threads |-> <<>>]}

\* One thread parses one input on a parser of its own.
Single(inputs) == {[t \in Threads |-> IF t = 1 THEN <<s>> ELSE <<>>] : s \in inputs}

Own == {[t \in Threads |-> t]}

\* Each thread parses one input; the two share a parser object or not.
Pair(inputs) == {[t \in Threads |-> <<w[t]>>] : w \in [Threads -> inputs]}

SharedOrOwn == {[t \in Threads |-> t], [t \in Threads |-> 1]}

Init == Start(Single(Core \cup SchemeInputs), Own)

Spec == Init /\ [][Next]_vars

InitUserinfo == Start(Single(Core \cup UserinfoInputs), Own)

SpecUserinfo == InitUserinfo /\ [][Next]_vars

InitHostPort == Start(Single(Core \cup HostPortInputs), Own)

SpecHostPort == InitHostPort /\ [][Next]_vars

InitPath == Start(Single(Core \cup PathInputs), Own)

SpecPath == InitPath /\ [][Next]_vars

\* The caller serializes the URIObject its one call returned and parses
\* the string again.
Reserialize(t) ==
    /\ frame[t].pc = "Done"
    /\ todo[t] = <<>>
    /\ Len(returned[t]) = 1
    /\ todo' = [todo EXCEPT ![t] = <<to_string(returned[t][1].uri[1])>>]
    /\ UNCHANGED <<parser, heap, frame, returned, uses>>
    /\ UNCHANGED beside_parse

NextRoundTrip ==
    \/ \E t \in Threads : Step(t)
    \/ \E t \in Threads : Reserialize(t)

InitRoundTrip == Start(Single(Core \cup RoundTripInputs), Own)

SpecRoundTrip == InitRoundTrip /\ [][NextRoundTrip]_vars

InitConcurrent == Start(Pair(ConcurrentInputs), SharedOrOwn)

SpecConcurrent == InitConcurrent /\ [][Next]_vars

InitHost == Start(Single(Core \cup HostInputs), Own)

SpecHost == InitHost /\ [][Next]_vars

InitQuery == Start(Single(Core \cup QueryInputs), Own)

SpecQuery == InitQuery /\ [][Next]_vars

\* Thread t has a step to take: a call of its own is under way, or it has
\* a string left to parse. Every action of Step(t) is guarded by the stage
\* frame[t].pc alone (Begin by todo[t] too) and changes frame[t], so this
\* is ENABLED <<Step(t)>>_vars.
Running(t) == frame[t].pc \notin {"Idle", "Done", "Failed"} \/ todo[t] # <<>>

\* Weak fairness of Step(t), WF_vars(Step(t)), with its ENABLED written as
\* Running(t): a thread that has a call under way goes on executing it
\* (parse is straight-line code that waits for nothing).
WeaklyFair(t) == ([]<>~Running(t)) \/ ([]<><<Step(t)>>_vars)

SpecQueryFair == InitQuery /\ [][Next]_vars /\ \A t \in Threads : WeaklyFair(t)

InitHandlers == Start(Single(Core \cup HandlerInputs), Own)

SpecHandlers == InitHandlers /\ [][Next]_vars

\* The URIObjects to_string is called on: URIObject.__init__ (lines 112 to
\* 121) takes any nine strings, so each field is empty or not, whatever
\* the others are.
URIObjects ==
    [scheme : {http, urn},
     username : {<<>>, <<"u">>},
     password : {<<>>, <<"p">>},
     host : {<<>>, <<"h">>},
     port : {<<>>, <<"8">>},
     path : {<<>>, <<"/", "p">>},
     query : {<<>>, <<"q">>},
     fragment : {<<>>, <<"f">>},
     opaque : {<<>>, <<"a">>}]

\* The caller calls to_string on its URIObject.
Serialize ==
    /\ serialized = <<>>
    /\ serialized' = <<to_string(object)>>
    /\ UNCHANGED <<parser, heap, frame, todo, returned, uses, _data, _next_id,
                   replies, object>>

NextSerialize == Serialize

InitSerialize ==
    /\ StartParsers(Nothing, Own)
    /\ NoStore
    /\ object \in URIObjects
    /\ serialized = <<>>

SpecSerialize == InitSerialize /\ [][NextSerialize]_vars

\* One thread makes up to MaxCalls parse calls, one after the other, on one
\* parser object (as the loop of lines 373 to 375 does).
Sequence(inputs, n) == {[t \in Threads |-> IF t = 1 THEN w ELSE <<>>] : w \in Calls(inputs, n)}

InitSequential == Start(Sequence(SequentialInputs, MaxCalls), Own)

SpecSequential == InitSequential /\ [][Next]_vars

(***************************************************************************)
(* Properties. They are stated on what a caller sees (returned) and on the *)
(* stage a call is at (frame, and the builder it fills), and read the      *)
(* input independently of the parser's own loops.                          *)
(***************************************************************************)
\* The last thing a call of thread t returned or raised.
Last(t) == returned[t][Len(returned[t])]

\* The URIObject thread t's last call returned.
Result(t) == Last(t).uri[1]

\* The length of the maximal leading run of characters of s in chars
\* starting at 0-based index from.
RunLength(s, from, chars) ==
    CHOOSE n \in 0..(Len(s) - from) :
        /\ \A i \in 1..n : s[from + i] \in chars
        /\ (from + n < Len(s) => s[from + n + 1] \notin chars)

\* The 0-based index of the first character of s in stops at or after from,
\* or Len(s) when there is none.
FirstOf(s, from, stops) == from + RunLength(s, from, {s[i] : i \in 1..Len(s)} \ stops)

\* The 0-based index just after the scheme's colon, for an input that has one.
AfterColon(s) == RunLength(s, 0, LetterSet) + 1

\* Where the authority text starts and ends, and the text itself.
AuthorityStart(s) == AfterColon(s) + RunLength(s, AfterColon(s), {"/", "\\"})

AuthorityEnd(s) == FirstOf(s, AuthorityStart(s), {"/", "?", "#"})

AuthorityText(s) == Slice(s, AuthorityStart(s), AuthorityEnd(s))

\* The path text: from the end of the authority to the first '?' or '#'.
PathText(s) == Slice(s, AuthorityEnd(s), FirstOf(s, AuthorityEnd(s), {"?", "#"}))

\* A Hierarchical call of thread t that has left the given stages behind.
Stages ==
    <<"ScanningScheme", "ConsumingSeparators", "ParsingAuthority", "ParsingPath",
      "ParsingQuery", "ParsingFragment", "Normalizing", "Building", "Done">>

After(stage) == {Stages[i] : i \in (IndexOf(stage, Stages) + 1)..Len(Stages)}

PastAuthority(t) ==
    frame[t].handler = "Hierarchical" /\ frame[t].pc \in After("ParsingAuthority")

Succeeded(t) == frame[t].pc = "Done"

(***************************************************************************)
(* C1  Idempotent normalization                                            *)
(***************************************************************************)
\* C1 as claimed: whenever parse(s) succeeds and the caller parses
\* to_string of the result, that second parse succeeds and its result has
\* the same nine fields. The code breaks it: to_string writes an IPv6 host
\* without its brackets, drops a password whose username is empty, and
\* writes an empty opaque part as "//" and "/".
C1_IdempotentNormalization ==
    \A t \in Threads :
        (/\ Len(returned[t]) = 2
         /\ returned[t][1].err = ""
         /\ returned[t][2].input = to_string(returned[t][1].uri[1]))
        => /\ returned[t][2].err = ""
           /\ returned[t][2].uri = returned[t][1].uri

(***************************************************************************)
(* C2  Last '@' wins by repeated flush                                     *)
(***************************************************************************)
\* The text between the previous '@' (or the authority's start) and the
\* last '@' of an authority that holds an '@'.
LastFlushed(auth) ==
    LET before == Slice(auth, 0, RIndex(auth, "@"))
    IN  IF Contains(before, "@") THEN From(before, RIndex(before, "@") + 1) ELSE before

\* C2 as claimed, with the percent-decoding the spec states: for every
\* authority that holds an '@', username and password come from the buffer
\* flushed at the last '@' alone: username is the (decoded) text before the
\* buffer's first ':', password the (decoded) text after it, and password
\* is empty when that buffer has no ':'. The code breaks the last part: the
\* password of an earlier flush survives a later flush that has no ':'.
C2_LastAtWins ==
    \A t \in Threads :
        PastAuthority(t) /\ Contains(AuthorityText(frame[t].input_str), "@")
        => LET seg == LastFlushed(AuthorityText(frame[t].input_str))
               colon == IF Contains(seg, ":") THEN Index(seg, ":") ELSE Len(seg)
               b == heap[frame[t].builder]
           IN  /\ b.username = percent_decode(Slice(seg, 0, colon))
               /\ b.password = percent_decode(From(seg, colon + 1))

(***************************************************************************)
(* C3  Port invariant                                                      *)
(***************************************************************************)
\* The registered default port of a scheme, as text.
RegisteredDefault(scheme) ==
    IF scheme \in {http, ws} THEN {<<"8", "0">>}
    ELSE IF scheme \in {https, wss} THEN {<<"4", "4", "3">>}
    ELSE IF scheme = ftp THEN {<<"2", "1">>}
    ELSE {}

AllDecimal(s) == s # <<>> /\ \A i \in 1..Len(s) : s[i] \in DigitSet

\* s without its leading zeros (one zero is kept of a string of zeros).
WithoutLeadingZeros(s) ==
    LET z == RunLength(s, 0, {"0"})
    IN  IF z = Len(s) /\ z > 0 THEN <<"0">> ELSE From(s, z)

\* The port segment of the residual authority buffer.
PortSegment(t) == SplitHostPort(frame[t].buffer)[2]

\* C3: in every result of a successful parse the port is empty or a decimal
\* digit string without leading zeros that is not the default port of the
\* result's scheme; and a port segment that is not all decimal digits, or
\* that is the default port (with or without leading zeros), gives an empty
\* port.
C3_PortInvariant ==
    \A t \in Threads :
        /\ Succeeded(t)
           => LET port == Result(t).port
              IN  \/ port = <<>>
                  \/ /\ AllDecimal(port)
                     /\ WithoutLeadingZeros(port) = port
                     /\ port \notin RegisteredDefault(Result(t).scheme)
        /\ Succeeded(t) /\ frame[t].handler = "Hierarchical"
           => LET seg == PortSegment(t)
              IN  /\ (~AllDecimal(seg)
                        \/ WithoutLeadingZeros(seg) \in RegisteredDefault(Result(t).scheme))
                     => Result(t).port = <<>>
                  /\ (AllDecimal(seg)
                        /\ WithoutLeadingZeros(seg) \notin RegisteredDefault(Result(t).scheme))
                     => Result(t).port = WithoutLeadingZeros(seg)

\* C3's case: http with port 080, which is the default behind a leading
\* zero, parsed to an empty port.
C3_Witness ==
    /\ Succeeded(1)
    /\ Result(1).scheme = http
    /\ PortSegment(1) = <<"0", "8", "0">>
    /\ Result(1).port = <<>>

(***************************************************************************)
(* C4  Separator rule                                                      *)
(***************************************************************************)
\* The run of '/' and '\' after the scheme's colon.
SeparatorRun(s) == Slice(s, AfterColon(s), AuthorityStart(s))

\* The rule with the failure's reason as a parameter: a Hierarchical parse
\* that is past the separator check has failed with this reason if and only
\* if the run has fewer than two characters and no '\'; a run that passes is
\* consumed whole.
SeparatorRuleWith(reason) ==
    \A t \in Threads :
        LET f == frame[t]
            run == SeparatorRun(f.input_str)
        IN  f.handler = "Hierarchical" /\ f.pc \in After("ConsumingSeparators") \cup {"Failed"}
            => /\ (f.pc = "Failed" /\ Last(t).err = reason)
                    <=> (Len(run) < 2 /\ ~Contains(run, "\\"))
               /\ f.pc = "ParsingAuthority" => f.index = AuthorityStart(f.input_str)

SchemeScanningWith(reason) ==
    \A t \in Threads :
        LET f == frame[t]
            s == Strip(f.input_string)
            n == RunLength(s, 0, LetterSet)
            bad == n = 0 \/ n = Len(s) \/ s[n + 1] # ":"
        IN  f.pc \in After("ScanningScheme") \cup {"Failed"}
            => /\ (f.pc = "Failed" /\ Last(t).err = reason) <=> bad
               /\ ~bad => /\ heap[f.builder].scheme = Lower(Slice(s, 0, n))
                          /\ heap[f.builder].scheme # <<>>
                          /\ \A i \in 1..n : heap[f.builder].scheme[i] \in Range(AsciiLower)
                          /\ parser[uses[t]].index = n + 1
                          /\ f.pc \in {"ConsumingSeparators", "CapturingOpaque"}
                             => f.index = n + 1
                          /\ f.pc = "Done" => Result(t).scheme = Lower(Slice(s, 0, n))

C6_LaneIsolation ==
    \A t \in Threads :
        Succeeded(t)
        => LET u == Result(t)
               s == Strip(Last(t).input)
           IN  IF u.scheme \in {urn, mailto, tel, news}
               THEN /\ u.opaque = From(s, AfterColon(s))
                    /\ \A field \in {"username", "password", "host", "port", "path",
                                     "query", "fragment"} : u[field] = <<>>
               ELSE u.opaque = <<>>

\* C6's case: an Opaque scheme whose remainder looks like an authority.
C6_Witness ==
    /\ Succeeded(1)
    /\ Result(1).scheme = urn
    /\ Result(1).opaque = <<"/", "/", "h">>

(***************************************************************************)
(* C7  Dot-segment resolution                                              *)
(***************************************************************************)
RECURSIVE Retained(_, _)
\* The stack of retained segments after the first k pieces of parts: empty
\* and "." pieces are skipped, ".." pops, and is dropped on an empty stack.
Retained(parts, k) ==
    IF k = 0 THEN <<>>
    ELSE LET below == Retained(parts, k - 1)
         IN  CASE parts[k] \in {<<>>, <<".">>} -> below
               [] parts[k] = <<".", ".">> ->
                    IF below = <<>> THEN <<>> ELSE SubSeq(below, 1, Len(below) - 1)
               [] OTHER -> Append(below, parts[k])

\* C7: the path of a successful Hierarchical parse starts with '/', has no
\* empty, "." or ".." segment, and is '/' followed by the '/'-join of the
\* segments the stack retains of the input's path text ("/" when none).
C7_DotSegments ==
    \A t \in Threads :
        Succeeded(t) /\ frame[t].handler = "Hierarchical"
        => LET path == Result(t).path
               parts == SplitOn(PathText(frame[t].input_str), "/")
           IN  /\ path # <<>>
               /\ path[1] = "/"
               /\ \/ path = <<"/">>
                  \/ \A seg \in Range(SplitOn(Tail(path), "/")) :
                        seg \notin {<<>>, <<".">>, <<".", ".">>}
               /\ path = <<"/">> \o JoinWith(Retained(parts, Len(parts)), "/")
               /\ Retained(parts, Len(parts)) = <<>> => path = <<"/">>

\* C7's case: a ".." that pops a segment, then one with nothing to pop.
C7_Witness ==
    /\ Succeeded(1)
    /\ PathText(frame[1].input_str) = <<"/", "p", "/", ".", ".", "/", ".", ".", "/", "p">>
    /\ Result(1).path = <<"/", "p">>

(***************************************************************************)
(* C8  Host/port split of the residual authority buffer                    *)
(***************************************************************************)
\* The split as claimed: brackets count wherever they stand.
SplitAsClaimed(buffer) ==
    IF Contains(buffer, "[") /\ Contains(buffer, "]")
    THEN LET rest == From(buffer, Index(buffer, "]") + 1)
         IN  <<Slice(buffer, Index(buffer, "[") + 1, Index(buffer, "]")),
               IF StartsWith(rest, ":") THEN From(rest, 1) ELSE <<>>>>
    ELSE IF Contains(buffer, ":")
    THEN <<Slice(buffer, 0, RIndex(buffer, ":")), From(buffer, RIndex(buffer, ":") + 1)>>
    ELSE <<buffer, <<>>>>

\* The split as amended: brackets count only when the buffer starts with
\* '['; a buffer that holds both brackets but does not start with '[' is the
\* host as a whole, with no port.
SplitAsAmended(buffer) ==
    IF Contains(buffer, "[") /\ Contains(buffer, "]")
    THEN IF buffer[1] = "["
         THEN LET rest == From(buffer, Index(buffer, "]") + 1)
              IN  <<Slice(buffer, 1, Index(buffer, "]")),
                    IF StartsWith(rest, ":") THEN From(rest, 1) ELSE <<>>>>
         ELSE <<buffer, <<>>>>
    ELSE IF Contains(buffer, ":")
    THEN <<Slice(buffer, 0, RIndex(buffer, ":")), From(buffer, RIndex(buffer, ":") + 1)>>
    ELSE <<buffer, <<>>>>

\* The builder of thread t holds the normalized halves of the split hp.
HostPortIs(t, hp) ==
    LET b == heap[frame[t].builder]
    IN  /\ Returned(b.host) = normalize_host(hp[1])
        /\ Returned(b.port) = normalize_port(hp[2], b.scheme)

\* C8 as claimed: a buffer that holds '[' and ']', wherever they stand, is
\* split at the brackets. The code does so only for a buffer that starts
\* with '['.
C8_AsClaimed ==
    \A t \in Threads :
        PastAuthority(t) => HostPortIs(t, SplitAsClaimed(frame[t].buffer))

\* C8 amended: a buffer that holds both brackets and starts with '[' gives
\* the text between that '[' and the first ']' as host and the text after
\* that ']' as port when it starts with ':' (else no port); one that holds
\* both and does not start with '[' is the host as a whole, with no port;
\* otherwise the buffer is split at its last ':' when it has one, and is
\* the host when it has none.
C8_HostPortSplit ==
    \A t \in Threads :
        PastAuthority(t) => HostPortIs(t, SplitAsAmended(frame[t].buffer))

\* C8's case: brackets after the start of the buffer, and a colon.
C8_Witness ==
    /\ PastAuthority(1)
    /\ frame[1].buffer = <<"h", "[", "]", ":">>
    /\ heap[frame[1].builder].host = <<"h", "[", "]", ":">>

(***************************************************************************)
(* C9  Only two failures exist                                             *)
(***************************************************************************)
\* C9 as claimed, with either spelling of the two reasons allowed: every
\* failing parse carries one of the two reasons and returns no URIObject,
\* so a parse that is past the separator check never fails. The code breaks
\* it: int() raises on a port that str.isdigit() accepts and int() does not
\* (SUPERSCRIPT TWO), and idna.encode raises on a host it does not allow.
C9_OnlyTwoFailures ==
    \A t \in Threads :
        frame[t].pc = "Failed"
        => /\ Last(t).err \in
                {"missing or invalid scheme", "Missing or invalid scheme",
                 "expected '//' after scheme", "Expected '//' after scheme"}
           /\ Last(t).uri = <<>>

(***************************************************************************)
(* C10  Concurrent parse invocations do not interfere                      *)
(***************************************************************************)
\* C10 as claimed: whatever the interleaving of two parse calls, each
\* returns or raises what it does when run alone. The code breaks it when
\* the two calls are made on one URIParser object: input, index and builder
\* are fields of that object, which both calls write and read.
C10_NoInterference ==
    \A t \in Threads :
        \A k \in 1..Len(returned[t]) : returned[t][k] = parse(returned[t][k].input)

(***************************************************************************)
(* C11  parse is a deterministic function of its input alone               *)
(***************************************************************************)
\* C11: on one parser object, each call of a sequence of calls starts from
\* the trimmed input, a zero cursor and an empty builder, and returns or
\* raises what parse gives for that input on a parser of its own; so equal
\* inputs of the sequence have equal outcomes.
C11_DeterministicAcrossCalls ==
    \A t \in Threads :
        /\ frame[t].pc = "ScanningScheme"
           => /\ parser[uses[t]].input = Strip(frame[t].input_string)
              /\ parser[uses[t]].index = 0
              /\ heap[parser[uses[t]].builder] = URIBuilder
        /\ \A k \in 1..Len(returned[t]) :
              /\ returned[t][k] = parse(returned[t][k].input)
              /\ \A j \in 1..k :
                    returned[t][j].input = returned[t][k].input
                    => returned[t][j] = returned[t][k]

\* C11's case: a call that returned a password and a port, a call that
\* failed, then a call whose result has neither.
C11_Witness ==
    /\ Len(returned[1]) = 3
    /\ returned[1][1].err = "" /\ returned[1][1].uri[1].password # <<>>
    /\ returned[1][1].uri[1].port # <<>>
    /\ returned[1][2].err # ""
    /\ returned[1][3].err = ""
    /\ returned[1][3].uri[1].password = <<>> /\ returned[1][3].uri[1].port = <<>>
    /\ returned[1][3].uri[1].host = <<"g">>

(***************************************************************************)
(* C12  Handler selection is total and never fails                         *)
(***************************************************************************)
\* C12: once the scheme is scanned, a handler is selected: Opaque for urn,
\* mailto, tel and news, Hierarchical for every other scheme, mapped or
\* not; the parse then stands in a stage of that handler (or has failed in
\* one of the Hierarchical handler's stages), and a parse that fails with
\* no handler selected failed in the scheme scan.
C12_HandlerSelection ==
    \A t \in Threads :
        LET f == frame[t]
        IN  /\ f.scheme # <<>>
               => /\ f.handler = IF f.scheme \in {urn, mailto, tel, news}
                                 THEN "Opaque" ELSE "Hierarchical"
                  /\ f.handler = "Opaque"
                     => f.pc \in {"CapturingOpaque", "Normalizing", "Building", "Done"}
                  /\ f.handler = "Hierarchical"
                     => f.pc \in After("ScanningScheme") \cup {"Failed"}
                  /\ f.pc = "Failed"
                     => Last(t).err # "Missing or invalid scheme"
            /\ (f.pc = "Failed" /\ f.scheme = <<>>)
               => /\ Last(t).err = "Missing or invalid scheme"
                  /\ _parse_scheme(Strip(f.input_string), 0).err # ""
            /\ f.pc \in After("ScanningScheme") \cup {"CapturingOpaque"} => f.scheme # <<>>

\* C12's case: unmapped schemes, one with a default port and one without,
\* parsed by the Hierarchical handler.
C12_Witness ==
    /\ Succeeded(1)
    /\ frame[1].scheme \in {wss, <<"g", "i", "t">>}
    /\ frame[1].handler = "Hierarchical"
    /\ Result(1).host = <<"h">>
    /\ Result(1).opaque = <<>>

(***************************************************************************)
(* C13  Host normalization                                                 *)
(***************************************************************************)
\* s without the characters of chars it ends with.
WithoutTrailing(s, chars) ==
    SubSeq(s, 1, Len(s) - RunLength([i \in 1..Len(s) |-> s[Len(s) + 1 - i]], 0, chars))

\* C13 as claimed: the host a parse stores for an ASCII host segment is
\* the segment with surrounding whitespace trimmed, trailing dots removed
\* and letters in lower case, nothing else removed; it never ends with '.',
\* holds no upper-case letter, and the final normalize leaves it as it is.
\* The code breaks the first part: strip('.') removes leading dots too.
C13_HostNormalization ==
    \A t \in Threads :
        PastAuthority(t)
        => LET host == heap[frame[t].builder].host
               segment == SplitHostPort(frame[t].buffer)[1]
           IN  /\ host = Lower(WithoutTrailing(Strip(segment), {"."}))
               /\ host # <<>> => host[Len(host)] # "."
               /\ \A i \in 1..Len(host) : host[i] \notin UpperSet
               /\ normalize(heap[frame[t].builder]).host = host

(***************************************************************************)
(* C14  Stage order and forward-only cursor                                *)
(***************************************************************************)
\* Where the path text ends and where the query ends (the path's end when
\* there is no query), as 0-based indices of the trimmed input.
PathEnd(s) == FirstOf(s, AuthorityEnd(s), {"?", "#"})

QueryEnd(s) ==
    IF PathEnd(s) < Len(s) /\ s[PathEnd(s) + 1] = "?"
    THEN FirstOf(s, PathEnd(s) + 1, {"#"})
    ELSE PathEnd(s)

\* Where the stage of a Hierarchical parse of s starts: where the stage
\* before it stopped.
StageStart(s, stage) ==
    CASE stage = "ConsumingSeparators" -> AfterColon(s)
      [] stage = "ParsingAuthority" -> AuthorityStart(s)
      [] stage = "ParsingPath" -> AuthorityEnd(s)
      [] stage = "ParsingQuery" -> PathEnd(s)
      [] stage = "ParsingFragment" -> QueryEnd(s)

\* C14: every step of a Hierarchical parse leads from its stage to the next
\* one of ScanningScheme, ConsumingSeparators, ParsingAuthority,
\* ParsingPath, ParsingQuery, ParsingFragment (and on to Normalizing), or
\* out of the sequence by a failure, never back; no step decreases the
\* cursor, neither the handler's nor the parser object's; and each stage
\* starts where the stage before it stopped.
C14_StageOrder ==
    [][\A t \in Threads :
          LET f == frame[t]
              g == frame'[t]
          IN  (g # f /\ g.pc # "ScanningScheme"
                 /\ (g.handler = "Hierarchical" \/ g.pc = "Failed"))
              => /\ f.pc \in Range(Stages) \ {"Done"}
                 /\ g.pc \in {Stages[IndexOf(f.pc, Stages) + 1], "Failed"}
                 /\ g.pc = "Failed"
                    => f.pc \in {"ScanningScheme", "ConsumingSeparators",
                                 "ParsingAuthority"}
                 /\ g.index >= f.index
                 /\ parser'[uses[t]].index >= parser[uses[t]].index
                 /\ g.pc \in {"ConsumingSeparators", "ParsingAuthority", "ParsingPath",
                              "ParsingQuery", "ParsingFragment"}
                    => g.index = StageStart(g.input_str, g.pc)
      ]_vars

\* C14's case: the fragment stage about to start at the '#' the query stage
\* stopped at, past a path and a query.
C14_Witness ==
    /\ frame[1].pc = "ParsingFragment"
    /\ frame[1].input_str = http \o <<":", "/", "/", "h", "/", "p", "?", "q", "#", "?">>
    /\ frame[1].index = 12

(***************************************************************************)
(* C15  Query and fragment are captured verbatim                           *)
(***************************************************************************)
\* C15: in the result of a successful Hierarchical parse, query is the
\* undecoded text from after the '?' that ends the path up to the next '#'
\* or the end of the input, and is empty when the path does not end at a
\* '?'; fragment is the undecoded rest of the input after the '#' that
\* follows, later '?' and '#' included, and is empty when no '#' follows.
\* The builder holds each from the end of its stage on.
C15_QueryFragmentVerbatim ==
    \A t \in Threads :
        LET f == frame[t]
            s == f.input_str
            query == IF PathEnd(s) < Len(s) /\ s[PathEnd(s) + 1] = "?"
                     THEN Slice(s, PathEnd(s) + 1, QueryEnd(s))
                     ELSE <<>>
            fragment == IF QueryEnd(s) < Len(s) /\ s[QueryEnd(s) + 1] = "#"
                        THEN From(s, QueryEnd(s) + 1)
                        ELSE <<>>
        IN  f.handler = "Hierarchical"
            => /\ f.pc \in After("ParsingQuery") => heap[f.builder].query = query
               /\ f.pc \in After("ParsingFragment") => heap[f.builder].fragment = fragment
               /\ f.pc \in After("ScanningScheme") \ After("ParsingQuery")
                  => heap[f.builder].query = <<>>
               /\ f.pc \in After("ScanningScheme") \ After("ParsingFragment")
                  => heap[f.builder].fragment = <<>>
               /\ Succeeded(t)
                  => /\ Result(t).query = query
                     /\ Result(t).fragment = fragment

\* C15's case: a percent escape kept in the query, and a fragment that
\* is a '?'.
C15_Witness ==
    /\ Succeeded(1)
    /\ Result(1).query = <<"%", "4", "1">>
    /\ Result(1).fragment = <<"?">>

(***************************************************************************)
(* C16  Serializer                                                         *)
(***************************************************************************)
\* The text x behind the mark, when x is non-empty; nothing otherwise.
Behind(mark, x) == IF x # <<>> THEN <<mark>> \o x ELSE <<>>

\* C16: to_string returns scheme, ':' and opaque when opaque is non-empty,
\* whatever the other fields hold; otherwise scheme and "://", then the
\* username, the password behind ':' when non-empty, and '@', only when the
\* username is non-empty, then host, then the port behind ':' when
\* non-empty, then path ("/" when empty), then the query behind '?' and the
\* fragment behind '#', each when non-empty.
C16_Serializer ==
    serialized # <<>>
    => LET u == object
       IN  /\ u.opaque # <<>> => serialized[1] = u.scheme \o <<":">> \o u.opaque
           /\ u.opaque = <<>>
              => serialized[1] =
                    u.scheme \o <<":", "/", "/">>
                    \o (IF u.username = <<>> THEN <<>>
                        ELSE u.username \o Behind(":", u.password) \o <<"@">>)
                    \o u.host
                    \o Behind(":", u.port)
                    \o (IF u.path = <<>> THEN <<"/">> ELSE u.path)
                    \o Behind("?", u.query)
                    \o Behind("#", u.fragment)

\* C16's case: a password with no username, which is not written.
C16_Witness ==
    /\ object.opaque = <<>> /\ object.username = <<>> /\ object.password = <<"p">>
    /\ object.host = <<"h">> /\ object.port = <<>> /\ object.path = <<>>
    /\ object.query = <<"q">> /\ object.fragment = <<>>
    /\ serialized = << http \o <<":", "/", "/", "h", "/", "?", "q">> >>

(***************************************************************************)
(* C17  Termination with full consumption                                  *)
(***************************************************************************)
\* Every call that has started reaches Done or a failure.
Terminates ==
    \A t \in Threads :
        (frame[t].pc = "ScanningScheme") ~> (frame[t].pc \in {"Done", "Failed"})

\* What a Hierarchical parse that is past its last stage has consumed: the
\* trimmed input is the scheme as written, ':', as many separators as were
\* counted, the authority text, the path text, '?' and the query when the
\* path ends at a '?', and '#' and the fragment when a '#' follows, query
\* and fragment being those of the builder; and the cursor is where the
\* query stage stopped. atEnd says where that is: at the end of the input
\* (TRUE), or at the end or at the '#' before the fragment (FALSE).
ConsumedWith(atEnd) ==
    \A t \in Threads :
        LET f == frame[t]
            s == f.input_str
            n == RunLength(s, 0, LetterSet)
            b == heap[f.builder]
            marked(mark, at, x) ==
                IF at < Len(s) /\ s[at + 1] = mark THEN <<mark>> \o x ELSE <<>>
        IN  (f.handler = "Hierarchical" /\ f.pc \in After("ParsingFragment"))
            => /\ b.scheme = Lower(Slice(s, 0, n))
               /\ s = Slice(s, 0, n) \o <<":">>
                      \o Slice(s, n + 1, n + 1 + f.slash_count)
                      \o AuthorityText(s) \o PathText(s)
                      \o marked("?", PathEnd(s), b.query)
                      \o marked("#", QueryEnd(s), b.fragment)
               /\ f.index = QueryEnd(s)
               /\ IF atEnd THEN f.index = Len(s)
                  ELSE \/ f.index = Len(s)
                       \/ s[f.index + 1] = "#" /\ b.fragment = From(s, f.index + 1)

\* C17 as claimed, in what it says of the cursor: once a Hierarchical
\* parse is past its last stage the cursor has passed every character. The
\* code's cursor does not pass a fragment: the fragment is taken as one
\* slice, and the cursor stays at its '#'.
C17_AsClaimed == ConsumedWith(TRUE)

\* C17 amended: every parse reaches Done or a failure, and at Done the
\* cursor of a Hierarchical parse stands at the end of the trimmed input or
\* at the '#' whose rest is the fragment; the input is exactly scheme, ':',
\* separator run, authority text, path text, optional '?' and query,
\* optional '#' and fragment.
C17_Termination == Terminates /\ []ConsumedWith(FALSE)

\* C17's case: a parse that is done with the cursor at the '#', two
\* characters before the end of the input.
C17_Witness ==
    /\ Succeeded(1)
    /\ frame[1].input_str = http \o <<":", "/", "/", "h", "/", "p", "?", "q", "#", "q">>
    /\ frame[1].index = 12
    /\ Result(1).fragment = <<"q">>

\* ------------------------------------------------------------------
\* The Store of HTTP_and_the_GET_Method_Task.py (lines 17 to 51).
\* _data maps a key to an item; an item is a dict, here a function from
\* its field names. A method returns an item or None: replies keeps
\* <<item>> for an item and <<>> for None, as the item was at the return
\* (the routes turn it to JSON at once, lines 122, 133 and 140).

None == <<>>

\* The names the route hands to create and update: non-empty after strip
\* (lines 119 to 121 and 129 to 131).
Names == {"a", "b"}

\* The keys a request names (the <int:key> routes, lines 125 and 136).
Keys == 0 .. MaxKey

\* What datetime.utcnow().isoformat() + "Z" can give: the clock is read,
\* not computed, so any of the values at any call.
Timestamps == {"T1Z", "T2Z"}

Reply(call, args, result) == [call |-> call, args |-> args, returned |-> result]

\* As create, but the id is taken from the number of items stored.
create_counts_items(name, now) ==
    /\ Len(replies) < MaxRequests
    /\ LET id == Cardinality(DOMAIN _data) + 1
           item == [id |-> id, name |-> name, created |-> now]
       IN  /\ _data' = [k \in DOMAIN _data \cup {id} |->
                            IF k = id THEN item ELSE _data[k]]
           /\ _next_id' = _next_id + 1
           /\ replies' = Append(replies, Reply("create", <<name>>, <<item>>))
    /\ UNCHANGED <<parser, heap, frame, todo, returned, uses, object, serialized>>

\* Store.create (lines 33 to 41).
create(name, now) ==
    /\ Len(replies) < MaxRequests
    /\ LET item == [id |-> _next_id, name |-> name, created |-> now]
       IN  /\ _data' = [k \in DOMAIN _data \cup {_next_id} |->
                            IF k = _next_id THEN item ELSE _data[k]]
           /\ _next_id' = _next_id + 1
           /\ replies' = Append(replies, Reply("create", <<name>>, <<item>>))
    /\ UNCHANGED <<parser, heap, frame, todo, returned, uses, object, serialized>>

\* dict item assignment d[field] = value on an item.
SetField(item, field, value) ==
    [f \in DOMAIN item \cup {field} |-> IF f = field THEN value ELSE item[f]]

\* Store.update (lines 43 to 48).
update(key, name, now) ==
    /\ Len(replies) < MaxRequests
    /\ IF key \notin DOMAIN _data
       THEN /\ replies' = Append(replies, Reply("update", <<key, name>>, None))
            /\ UNCHANGED _data
       ELSE LET item == SetField(SetField(_data[key], "name", name), "updated", now)
            IN  /\ _data' = [_data EXCEPT ![key] = item]
                /\ replies' = Append(replies, Reply("update", <<key, name>>, <<item>>))
    /\ UNCHANGED <<parser, heap, frame, todo, returned, uses, _next_id, object, serialized>>

\* Store.delete (lines 50 to 51): dict.pop(key, None).
delete(key) ==
    /\ Len(replies) < MaxRequests
    /\ IF key \notin DOMAIN _data
       THEN /\ replies' = Append(replies, Reply("delete", <<key>>, None))
            /\ UNCHANGED _data
       ELSE /\ _data' = [k \in DOMAIN _data \ {key} |-> _data[k]]
            /\ replies' = Append(replies, Reply("delete", <<key>>, <<_data[key]>>))
    /\ UNCHANGED <<parser, heap, frame, todo, returned, uses, _next_id, object, serialized>>

\* The calls are made one after the other, each method running to its
\* return before the next call.
NextStore ==
    \/ \E name \in Names, now \in Timestamps : create(name, now)
    \/ \E key \in Keys, name \in Names, now \in Timestamps : update(key, name, now)
    \/ \E key \in Keys : delete(key)

InitStore == StartParsers(Nothing, Own) /\ NoStore /\ NoObject

SpecStore == InitStore /\ [][NextStore]_vars

\* ------------------------------------------------------------------
\* C18: Store identifiers. After any sequence of create, update and delete
\* calls every stored item is kept under the key equal to its own "id",
\* every stored id is smaller than _next_id, _next_id never decreases, and
\* create never returns an id that an earlier create returned, also after
\* that item was deleted; update and delete of a key that is not stored
\* return None and leave _data and _next_id unchanged.

KeyedById == \A k \in DOMAIN _data : _data[k]["id"] = k

BelowCounter == \A k \in DOMAIN _data : _data[k]["id"] < _next_id

FreshIds ==
    \A i \in 1 .. Len(replies), j \in 1 .. Len(replies) :
        (i < j /\ replies[i].call = "create" /\ replies[j].call = "create")
            => replies[j].returned[1]["id"] # replies[i].returned[1]["id"]

CounterGrows == _next_id' >= _next_id

AbsentKeyLeavesStore ==
    (Len(replies') = Len(replies) + 1)
        => LET r == replies'[Len(replies')]
           IN  (r.call \in {"update", "delete"} /\ r.args[1] \notin DOMAIN _data)
                   => /\ r.returned = None
                      /\ _data' = _data
                      /\ _next_id' = _next_id

C18_StoreIdentifiers ==
    /\ [](KeyedById /\ BelowCounter /\ FreshIds)
    /\ [][CounterGrows /\ AbsentKeyLeavesStore]_vars

\* An item was created and deleted, the next create returned a new id, and
\* an update of the deleted key returned None.
C18_Witness ==
    /\ Len(replies) = 4
    /\ replies[1].call = "create"
    /\ replies[2].call = "delete" /\ replies[2].args[1] = 1
    /\ replies[2].returned # None
    /\ replies[3].call = "create" /\ replies[3].returned[1]["id"] = 2
    /\ replies[4].call = "update" /\ replies[4].args[1] = 1
    /\ replies[4].returned = None
    /\ DOMAIN _data = {2}
    /\ _next_id = 3

====
